---- MODULE Spec2Model ----
(***************************************************************************)
(* Model of family-gpt: the LaTeX-fraction rewriter                        *)
(* (services/math_utils.py), the chat request handler (app.py) and the     *)
(* question-complexity classifier (services/gpt_service.py).               *)
(*                                                                         *)
(* A text is a sequence of lexemes.  Every lexeme is one character, except *)
(* the backslash commands "\frac", "\[", "\]", "\(", "\)" and the Korean   *)
(* word written BUNUI here (two Hangul syllables in the source, which this *)
(* notation cannot spell).  A lone backslash is not a lexeme, so a regular *)
(* expression of math_utils.py can only start or end a match on a lexeme   *)
(* boundary, and matching lexeme by lexeme is matching character by        *)
(* character.                                                              *)
(***************************************************************************)
EXTENDS Integers, Sequences, FiniteSets, TLC

VARIABLES
    text, stages, result, again, pc,        \* a call of process_math_response
    question, flag, tier,                   \* a call of analyze_question_complexity
    usePostgres, client, now,               \* app.py: configuration, the clock
    conversations, messages,                \* tables gpt_conversations, gpt_messages
    raw, reply,                             \* last model response, last JSON reply
    users, DEFAULT_USERS,                   \* table gpt_users, config.DEFAULT_USERS
    call, removed                           \* last request; ids deleted and not added
                                            \* since, while no database call raised

rewriterVars == <<text, stages, result, again, pc>>
classifierVars == <<question, flag, tier>>
chatVars == <<usePostgres, client, now, conversations, messages, raw, reply>>
userVars == <<users, DEFAULT_USERS, call, removed>>
vars == <<rewriterVars, classifierVars, chatVars, userVars>>

FRAC == "\\frac"
LBRACE == "{"
RBRACE == "}"
DOLLAR == "$"
SPACE == " "
NEWLINE == "\n"
BUNUI == "bunui"

(* str.strip() removes these. *)
Whitespace == {SPACE, NEWLINE}

(* Python values: None, or a str (a sequence of lexemes). *)
None == [isNone |-> TRUE, chars |-> <<>>]
Str(s) == [isNone |-> FALSE, chars |-> s]

(* ---------------- helpers: Python str and re primitives ---------------- *)

(* `tok in s` for a one-lexeme needle. *)
Contains(s, tok) == \E i \in 1..Len(s) : s[i] = tok

(* `pat` matches s at position i (a literal run of lexemes). *)
LitAt(s, i, pat) ==
    /\ i >= 1
    /\ i + Len(pat) - 1 <= Len(s)
    /\ \A k \in 1..Len(pat) : s[i + k - 1] = pat[k]

Cut(s, a, b) == IF a > b THEN <<>> ELSE SubSeq(s, a, b)

RECURSIVE LStrip(_)
LStrip(s) ==
    IF s # <<>> /\ Head(s) \in Whitespace THEN LStrip(Tail(s)) ELSE s

RECURSIVE RStrip(_)
RStrip(s) ==
    IF s # <<>> /\ s[Len(s)] \in Whitespace
    THEN RStrip(SubSeq(s, 1, Len(s) - 1)) ELSE s

Strip(s) == RStrip(LStrip(s))

(* ---------------- _DELIMITERS: the four unwrapping patterns ------------ *)

(* Each pattern: opening literal, lazy group (.+?), closing literal;       *)
(* dotall says whether "." also matches a newline (re.DOTALL).             *)
_DELIMITERS ==
    << [open |-> <<"\\[">>, close |-> <<"\\]">>, dotall |-> TRUE],
       [open |-> <<"\\(">>, close |-> <<"\\)">>, dotall |-> TRUE],
       [open |-> <<DOLLAR, DOLLAR>>, close |-> <<DOLLAR, DOLLAR>>, dotall |-> TRUE],
       [open |-> <<DOLLAR>>, close |-> <<DOLLAR>>, dotall |-> FALSE] >>

(* The lazy group has consumed s[g..k-1]; try to close at k, else consume  *)
(* s[k] and go on.  Returns the position of the closing literal, 0 when    *)
(* the attempt fails.                                                      *)
RECURSIVE LazyClose(_, _, _, _)
LazyClose(p, s, g, k) ==
    IF k > Len(s) THEN 0
    ELSE IF k > g /\ LitAt(s, k, p.close) THEN k
    ELSE IF ~p.dotall /\ s[k] = NEWLINE THEN 0
    ELSE LazyClose(p, s, g, k + 1)

(* Position of the closing literal of the match of p starting at i, or 0. *)
DelimMatch(p, s, i) ==
    IF LitAt(s, i, p.open) THEN LazyClose(p, s, i + Len(p.open), i + Len(p.open))
    ELSE 0

(* Mutant: the fraction test of the lambda dropped. *)
Unwrap_Always(whole, group) == group

(* The lambda of line 50: group(1) if it holds a fraction marker, else the *)
(* whole match.                                                            *)
Unwrap(whole, group) == IF Contains(group, FRAC) THEN group ELSE whole

(* pattern.sub(lambda, s), scanning from position i: leftmost matches,     *)
(* non-overlapping, unmatched lexemes copied.                              *)
RECURSIVE DelimSub(_, _, _)
DelimSub(p, s, i) ==
    IF i > Len(s) THEN <<>>
    ELSE LET k == DelimMatch(p, s, i) IN
         IF k = 0 THEN <<s[i]>> \o DelimSub(p, s, i + 1)
         ELSE LET e == k + Len(p.close) - 1 IN
              Unwrap(SubSeq(s, i, e), Cut(s, i + Len(p.open), k - 1))
                  \o DelimSub(p, s, e + 1)

(* The for loop of lines 48-52: the patterns in order, each on the output  *)
(* of the one before.  Loop(s, n) lists the values the local `result`      *)
(* takes: s before pattern n runs, then after each remaining pattern.      *)
RECURSIVE Loop(_, _)
Loop(s, n) ==
    IF n > Len(_DELIMITERS) THEN <<s>>
    ELSE <<s>> \o Loop(DelimSub(_DELIMITERS[n], s, 1), n + 1)

UnwrapAll(s) == Loop(s, 1)[Len(_DELIMITERS) + 1]

(* ---------------- _FRAC_PATTERN and _frac_to_korean -------------------- *)

(* First position >= k holding a "}", or 0: where [^}]+ must stop. *)
RECURSIVE NextRBrace(_, _)
NextRBrace(s, k) ==
    IF k > Len(s) THEN 0
    ELSE IF s[k] = RBRACE THEN k
    ELSE NextRBrace(s, k + 1)

(* Mutant: [^}]* in place of [^}]+, an empty numerator or denominator     *)
(* accepted.                                                               *)
FracMatch_EmptyAllowed(s, i) ==
    IF ~LitAt(s, i, <<FRAC, LBRACE>>) THEN <<0, 0>>
    ELSE LET n == NextRBrace(s, i + 2) IN
         IF n < i + 2 \/ ~LitAt(s, n, <<RBRACE, LBRACE>>) THEN <<0, 0>>
         ELSE LET d == NextRBrace(s, n + 2) IN
              IF d < n + 2 THEN <<0, 0>> ELSE <<n, d>>

(* The match of \\frac\{([^}]+)\}\{([^}]+)\} starting at i:                *)
(* <<n, d>> = positions of the two closing braces, or <<0, 0>>.            *)
FracMatch(s, i) ==
    IF ~LitAt(s, i, <<FRAC, LBRACE>>) THEN <<0, 0>>
    ELSE LET n == NextRBrace(s, i + 2) IN
         IF n < i + 3 \/ ~LitAt(s, n, <<RBRACE, LBRACE>>) THEN <<0, 0>>
         ELSE LET d == NextRBrace(s, n + 2) IN
              IF d < n + 3 THEN <<0, 0>> ELSE <<n, d>>

(* Mutant: numerator first. *)
_frac_to_korean_Swapped(numerator, denominator) ==
    Strip(numerator) \o <<BUNUI, SPACE>> \o Strip(denominator)

_frac_to_korean(numerator, denominator) ==
    Strip(denominator) \o <<BUNUI, SPACE>> \o Strip(numerator)

(* _FRAC_PATTERN.sub(_frac_to_korean, s), scanning from position i. *)
RECURSIVE FracSubFrom(_, _)
FracSubFrom(s, i) ==
    IF i > Len(s) THEN <<>>
    ELSE LET m == FracMatch(s, i) IN
         IF m[1] = 0 THEN <<s[i]>> \o FracSubFrom(s, i + 1)
         ELSE _frac_to_korean(Cut(s, i + 2, m[1] - 1), Cut(s, m[1] + 2, m[2] - 1))
                  \o FracSubFrom(s, m[2] + 1)

(* Mutant: sub(..., count=1), only the first fraction substituted. *)
RECURSIVE FracSubOnce(_, _)
FracSubOnce(s, i) ==
    IF i > Len(s) THEN <<>>
    ELSE LET m == FracMatch(s, i) IN
         IF m[1] = 0 THEN <<s[i]>> \o FracSubOnce(s, i + 1)
         ELSE _frac_to_korean(Cut(s, i + 2, m[1] - 1), Cut(s, m[1] + 2, m[2] - 1))
                  \o Cut(s, m[2] + 1, Len(s))

FracSub_FirstOnly(s) == FracSubOnce(s, 1)

FracSub(s) == FracSubFrom(s, 1)

(* ---------------- process_math_response ------------------------------- *)

(* Truthiness of a str-or-None value: `not text` is ~Truthy(text). *)
Truthy(t) == ~t.isNone /\ t.chars # <<>>

(* Line 42: `not text or '\\frac' not in text`. *)
FastPath(t) == ~Truthy(t) \/ ~Contains(t.chars, FRAC)

(* Mutants: `return ''` and `return text`. *)
OrEmpty_Blank(t) == Str(<<>>)
OrEmpty_Same(t) == t

(* Line 43: `text or ''`. *)
OrEmpty(t) == IF Truthy(t) THEN t ELSE Str(<<>>)

(* The values of the local `result` from line 45 to line 52; none on the   *)
(* fast path, which returns before line 45.                                *)
Locals(t) == IF FastPath(t) THEN <<>> ELSE Loop(t.chars, 1)

process_math_response(t) ==
    IF FastPath(t) THEN OrEmpty(t) ELSE Str(FracSub(UnwrapAll(t.chars)))

(* ---------------- inputs ---------------------------------------------- *)

(* An input is None or a text put together from at most a few chunks of    *)
(* one family.  The chunks are lexemes and ready-made pieces: a complete   *)
(* fraction, a fraction with blanks inside its braces, a fraction cut      *)
(* after its numerator, a braced group.                                    *)
Half == <<FRAC, LBRACE, "1", RBRACE>>
Group == <<LBRACE, "2", RBRACE>>
Whole == Half \o Group
Blanks == <<FRAC, LBRACE, SPACE, "1", RBRACE, LBRACE, "2", NEWLINE, RBRACE>>

MaxChunks == 3
MaxSpanChunks == 4
MaxFracChunks == 5
MaxMixChunks == 4
MaxDollarChunks == 7

(* Every delimiter, blanks and fractions, in short texts. *)
AllChunks ==
    { <<"\\[">>, <<"\\]">>, <<"\\(">>, <<"\\)">>, <<DOLLAR>>,
      <<SPACE>>, <<NEWLINE>>, <<"x">>, <<FRAC, LBRACE>>, Whole, Blanks }

(* Delimiters around and between fractions, and newlines inside them. *)
SpanChunks == { <<DOLLAR>>, <<"\\(">>, <<"\\)">>, <<NEWLINE>>, Whole }

(* Braces: nested, cut short and empty fractions. *)
FracChunks == { <<FRAC, LBRACE>>, <<RBRACE, LBRACE>>, <<RBRACE>>, <<"x">>, Whole }

(* Delimiters between the two halves of a fraction. *)
MixChunks == { <<DOLLAR>>, <<"\\(">>, <<"\\)">>, Half, Group }

(* Runs of dollars: where $ ... $ and $$ ... $$ compete. *)
DollarChunks == { <<DOLLAR>>, <<"x">>, Whole }

(* The conversions the docstring lists (lines 31-34), on the fraction 1/2. *)
Documented ==
    { Whole,
      <<"\\(", SPACE>> \o Whole \o <<SPACE, "\\)">>,
      <<DOLLAR, SPACE>> \o Whole \o <<SPACE, DOLLAR>> }

RECURSIVE Texts(_, _)
Texts(chunks, n) ==
    IF n = 0 THEN {<<>>}
    ELSE LET shorter == Texts(chunks, n - 1) IN
         shorter \cup {s \o c : s \in shorter, c \in chunks}

Inputs ==
    {None} \cup
    {Str(s) : s \in Texts(AllChunks, MaxChunks) \cup Texts(SpanChunks, MaxSpanChunks)
                     \cup Texts(FracChunks, MaxFracChunks)
                     \cup Texts(MixChunks, MaxMixChunks)
                     \cup Texts(DollarChunks, MaxDollarChunks)
                     \cup Documented}

(* ---------------- analyze_question_complexity ------------------------- *)

(* services/gpt_service.py is not among the sources; the classifier is     *)
(* written from section 4.1 of the specification.  A tier is the model     *)
(* name the handler goes on to use (the keys of OPENROUTER_MODELS).  A     *)
(* question is a sequence of lexemes: a keyword, spelled in Latin letters  *)
(* here, or one character that belongs to no keyword.                      *)
Light == "gpt-4o-mini"
Standard == "gpt-4o"
Heavy == "gpt-5.2"

HeavyKeywords ==
    {"kodeu", "hamsu", "algorijeum", "bunseok", "bigyo", "jakseonghae",
     "esei", "jeungmyeong", "jasehi"}
StandardKeywords ==
    {"seolmyeonghae", "eotteoke", "beonyeok", "gaenyeom", "wae", "gyesan", "gongsik"}
LightKeywords == {"mwoya", "annyeong", "nalssi", "gomawo", "myeot", "eonje"}

LongLimit == 200
ShortLimit == 50

(* str.lower(): the keywords are Hangul and have no case. *)
Lower(s) == [i \in DOMAIN s |-> IF s[i] = "A" THEN "a" ELSE s[i]]

(* any(k in lowered for k in keywords) *)
ContainsAny(s, keywords) == \E i \in 1..Len(s) : s[i] \in keywords

(* Mutant: the keyword tiers scanned before the image flag is looked at. *)
analyze_question_complexity_ImageLast(q, has_image) ==
    IF ContainsAny(Lower(q), HeavyKeywords) THEN Heavy
    ELSE IF ContainsAny(Lower(q), StandardKeywords) THEN Standard
    ELSE IF ContainsAny(Lower(q), LightKeywords) THEN Light
    ELSE IF has_image THEN Heavy
    ELSE IF Len(q) > LongLimit THEN Heavy
    ELSE IF Len(q) > ShortLimit THEN Standard
    ELSE Light

(* Mutant: the Standard keywords scanned before the Heavy ones. *)
analyze_question_complexity_StandardFirst(q, has_image) ==
    IF has_image THEN Heavy
    ELSE IF ContainsAny(Lower(q), StandardKeywords) THEN Standard
    ELSE IF ContainsAny(Lower(q), HeavyKeywords) THEN Heavy
    ELSE IF ContainsAny(Lower(q), LightKeywords) THEN Light
    ELSE IF Len(q) > LongLimit THEN Heavy
    ELSE IF Len(q) > ShortLimit THEN Standard
    ELSE Light

(* Mutant: the length limits taken as inclusive (>= in place of >). *)
analyze_question_complexity_AtLeast(q, has_image) ==
    IF has_image THEN Heavy
    ELSE IF ContainsAny(Lower(q), HeavyKeywords) THEN Heavy
    ELSE IF ContainsAny(Lower(q), StandardKeywords) THEN Standard
    ELSE IF ContainsAny(Lower(q), LightKeywords) THEN Light
    ELSE IF Len(q) >= LongLimit THEN Heavy
    ELSE IF Len(q) >= ShortLimit THEN Standard
    ELSE Light

(* The length is that of the text as given; it is looked at only when no   *)
(* keyword is in the text, and then every lexeme is one character.         *)
analyze_question_complexity(q, has_image) ==
    IF has_image THEN Heavy
    ELSE IF ContainsAny(Lower(q), HeavyKeywords) THEN Heavy
    ELSE IF ContainsAny(Lower(q), StandardKeywords) THEN Standard
    ELSE IF ContainsAny(Lower(q), LightKeywords) THEN Light
    ELSE IF Len(q) > LongLimit THEN Heavy
    ELSE IF Len(q) > ShortLimit THEN Standard
    ELSE Light

(* Questions: at most MaxWords lexemes, after a run of plain characters.   *)
MaxWords == 3
Words == {"kodeu", "jasehi", "seolmyeonghae", "wae", "annyeong", "myeot", "a", "A", SPACE}
Paddings == {0, ShortLimit - MaxWords, ShortLimit + 1, LongLimit - MaxWords, LongLimit + 1}
Pad(n) == [i \in 1..n |-> "a"]
Questions ==
    {Pad(n) \o w : n \in Paddings, w \in Texts({<<x>> : x \in Words}, MaxWords)}

NoTier == "none"

(* ---------------- app.py: the tables and save_gpt_message ------------- *)

NoConversation == ""
NoReply == [ok |-> FALSE, error |-> "none yet"]

(* The gpt_conversations row of (user, conv), if any. *)
ConversationRows(convs, user, conv) ==
    {c \in convs : c.user_id = user /\ c.conversation_id = conv}

(* Lines 293-299 and 306-310: the upsert of the conversation row.          *)
(* PostgreSQL: ON CONFLICT DO UPDATE SET updated_at.  SQLite: INSERT OR    *)
(* REPLACE, which deletes the row in conflict and inserts a new one whose  *)
(* created_at takes its default, CURRENT_TIMESTAMP.                        *)
UpsertConversation(convs, postgres, user, conv, time) ==
    LET old == ConversationRows(convs, user, conv) IN
    IF old = {} \/ ~postgres
    THEN (convs \ old) \cup
             {[user_id |-> user, conversation_id |-> conv,
               created_at |-> time, updated_at |-> time]}
    ELSE (convs \ old) \cup {[c EXCEPT !.updated_at = time] : c \in old}

(* save_gpt_message, lines 286-323: one transaction; when the database     *)
(* raises, nothing is committed and False is returned.                     *)
save_gpt_message(db, postgres, time, user, conv, role, content, model, has_image, works) ==
    IF ~works THEN db
    ELSE [conversations |-> UpsertConversation(db.conversations, postgres, user, conv, time),
          messages |-> Append(db.messages,
                              [user_id |-> user, conversation_id |-> conv, role |-> role,
                               content |-> content, model |-> model,
                               has_image |-> has_image, created_at |-> time])]

(* ---------------- app.py: api_gpt_chat -------------------------------- *)

OPENROUTER_MODELS == {"gpt-5.2", "gpt-4o", "gpt-4o-mini"}

MaxMessages == 2
MaxTime == 1

UserIds == {"default"}
ConversationIds == {"c1"}
ChatMessages == {<<SPACE>>, <<"a">>}
Images == {None, Str(<<"x">>)}
Preferences == {"auto", "gpt-4o"}
ModelResponses == {<<"x">>, <<"\\(", SPACE>> \o Whole \o <<SPACE, "\\)">>}
NoModel == "None"

(* Lines 401-404. *)
SelectedModel(preference, message, has_image, image) ==
    IF preference = "auto"
    THEN analyze_question_complexity(message, has_image \/ Truthy(image))
    ELSE preference

(* Lines 424-455: the model named in the reply. *)
ModelUsed(selected, image) ==
    IF Truthy(image) /\ selected = "gpt-4o" THEN "gpt-4o" ELSE selected

(* Mutant: the two saves in the other order. *)
SaveExchange_AssistantFirst(db, postgres, time, user, conv, message, image, response, model_used, w1, w2) ==
    save_gpt_message(
        save_gpt_message(db, postgres, time, user, conv, "assistant", response, model_used,
                         FALSE, w2),
        postgres, time, user, conv, "user", message, NoModel, Truthy(image), w1)

(* Lines 457-463: the user record, then the assistant record. *)
SaveExchange(db, postgres, time, user, conv, message, image, response, model_used, w1, w2) ==
    save_gpt_message(
        save_gpt_message(db, postgres, time, user, conv, "user", message, NoModel,
                         Truthy(image), w1),
        postgres, time, user, conv, "assistant", response, model_used, FALSE, w2)

(* One request to /api/gpt/chat, lines 386-472.  `answer` is what the      *)
(* model call does: it raises, or returns a text; w1 and w2 say whether    *)
(* the database takes the two writes.                                      *)
ApiGptChat ==
    \E body \in ChatMessages, preference \in Preferences, user \in UserIds,
       conv \in ConversationIds \cup {NoConversation}, has_image \in BOOLEAN,
       image \in Images, answer \in {None} \cup {Str(r) : r \in ModelResponses},
       w1 \in BOOLEAN, w2 \in BOOLEAN :
        LET message == Strip(body)
            selected == SelectedModel(preference, message, has_image, image)
            model_used == ModelUsed(selected, image)
            db == [conversations |-> conversations, messages |-> messages]
        IN  /\ conv = NoConversation \/ Len(messages) + 2 <= MaxMessages
            /\ IF message = <<>> /\ ~Truthy(image)
               THEN /\ reply' = [ok |-> FALSE, error |-> "empty message"]
                    /\ UNCHANGED <<conversations, messages, raw>>
               ELSE IF ~client
               THEN /\ reply' = [ok |-> FALSE, error |-> "no api key"]
                    /\ UNCHANGED <<conversations, messages, raw>>
               ELSE IF answer.isNone
               THEN /\ reply' = [ok |-> FALSE, error |-> "chat"]
                    /\ raw' = None
                    /\ UNCHANGED <<conversations, messages>>
               ELSE LET assistant_response == answer.chars
                        saved == IF conv # NoConversation
                                 THEN SaveExchange(db, usePostgres, now, user, conv, message,
                                                   image, assistant_response, model_used, w1, w2)
                                 ELSE db
                    IN  /\ raw' = answer
                        /\ conversations' = saved.conversations
                        /\ messages' = saved.messages
                        /\ reply' = [ok |-> TRUE, response |-> assistant_response,
                                     model_used |-> model_used]
            /\ UNCHANGED <<usePostgres, client, now>>
            /\ UNCHANGED <<rewriterVars, classifierVars, userVars>>

(* Time passes between requests. *)
Tick ==
    /\ now < MaxTime
    /\ now' = now + 1
    /\ UNCHANGED <<usePostgres, client, conversations, messages, raw, reply>>
    /\ UNCHANGED <<rewriterVars, classifierVars, userVars>>

(* ---------------- app.py: the users of the family ---------------------- *)

NoCall == [op |-> "none"]

(* The elements of a list. *)
Range(list) == {list[i] : i \in 1..Len(list)}

(* save_gpt_users, lines 207-231: INSERT ... DO NOTHING / INSERT OR IGNORE *)
(* for every id of the list, one commit; when the database raises nothing  *)
(* is committed.  The table is the list of its user_id in the order of id. *)
RECURSIVE InsertAll(_, _)
InsertAll(table, list) ==
    IF list = <<>> THEN table
    ELSE InsertAll(IF Head(list) \in Range(table) THEN table
                   ELSE Append(table, Head(list)),
                   Tail(list))

save_gpt_users(table, list, works) ==
    IF works THEN InsertAll(table, list) ELSE table

(* load_gpt_users, lines 187-204: the ids of the table; an empty table is  *)
(* filled with the default users first, and they are returned; when the    *)
(* SELECT raises, the default users are returned.  `defaults` is           *)
(* DEFAULT_USERS.  Gives the list returned and the table left.             *)
load_gpt_users(table, defaults, selects, saves) ==
    IF ~selects THEN [list |-> defaults, table |-> table]
    ELSE IF table # <<>> THEN [list |-> table, table |-> table]
    ELSE [list |-> defaults, table |-> save_gpt_users(table, defaults, saves)]

(* The list without the id. *)
RECURSIVE Without(_, _)
Without(list, id) ==
    IF list = <<>> THEN <<>>
    ELSE IF Head(list) = id THEN Without(Tail(list), id)
    ELSE <<Head(list)>> \o Without(Tail(list), id)

RECURSIVE MessagesOfOthers(_, _)
MessagesOfOthers(list, id) ==
    IF list = <<>> THEN <<>>
    ELSE IF Head(list).user_id = id THEN MessagesOfOthers(Tail(list), id)
    ELSE <<Head(list)>> \o MessagesOfOthers(Tail(list), id)

(* delete_gpt_user, lines 351-368: the messages, the conversations and the *)
(* row of the user, in one transaction.                                    *)
delete_gpt_user(db, id, works) ==
    IF ~works THEN db
    ELSE [conversations |-> {c \in db.conversations : c.user_id # id},
          messages |-> MessagesOfOthers(db.messages, id),
          users |-> Without(db.users, id)]

(* load_gpt_conversations_for_user, lines 234-283, as api_gpt_get_users    *)
(* uses it: the numbers of conversations and of messages of the user; an   *)
(* empty result when the query raises.                                     *)
UserSummary(id, works) ==
    LET convs == IF works THEN {c \in conversations : c.user_id = id} ELSE {}
        count(c) == Cardinality({i \in 1..Len(messages) :
                        /\ messages[i].user_id = id
                        /\ messages[i].conversation_id = c.conversation_id})
        RECURSIVE Sum(_)
        Sum(S) == IF S = {} THEN 0
                  ELSE LET c == CHOOSE x \in S : TRUE IN count(c) + Sum(S \ {c})
    IN  [id |-> id, conversation_count |-> Cardinality(convs), total_messages |-> Sum(convs)]

MaxSaved == 2

Names == {"default", "mom"}
DefaultLists == {<<>>, <<"default", "mom">>}
NameTexts == {<<SPACE>>, <<"default">>, <<SPACE, "mom", SPACE>>}

(* GET /api/gpt/users, lines 544-563. *)
ApiGptGetUsers ==
    \E selects \in BOOLEAN, saves \in BOOLEAN, reads \in BOOLEAN :
        LET loaded == load_gpt_users(users, DEFAULT_USERS, selects, saves) IN
        /\ users' = loaded.table
        /\ reply' = [ok |-> TRUE,
                     users |-> [i \in 1..Len(loaded.list) |-> UserSummary(loaded.list[i], reads)]]
        /\ call' = [op |-> "list"]
        /\ removed' = IF selects /\ saves /\ reads THEN removed ELSE {}
        /\ UNCHANGED DEFAULT_USERS
        /\ UNCHANGED <<usePostgres, client, now, conversations, messages, raw>>
        /\ UNCHANGED <<rewriterVars, classifierVars>>

(* POST /api/gpt/users, lines 566-587.  The name is one lexeme, with or    *)
(* without blanks around it.                                               *)
ApiGptAddUser ==
    \E body \in NameTexts, selects \in BOOLEAN, seeds \in BOOLEAN, saves \in BOOLEAN :
        LET user_name == Strip(body)
            loaded == load_gpt_users(users, DEFAULT_USERS, selects, seeds)
            clean == selects /\ seeds /\ saves
        IN  /\ IF user_name = <<>>
               THEN /\ reply' = [ok |-> FALSE, error |-> "no name"]
                    /\ call' = [op |-> "add", ok |-> FALSE]
                    /\ UNCHANGED <<users, removed>>
               ELSE IF user_name[1] \in Range(loaded.list)
               THEN /\ reply' = [ok |-> FALSE, error |-> "exists"]
                    /\ call' = [op |-> "add", ok |-> FALSE]
                    /\ users' = loaded.table
                    /\ removed' = IF clean THEN removed ELSE {}
               ELSE LET list == Append(loaded.list, user_name[1]) IN
                    /\ users' = save_gpt_users(loaded.table, list, saves)
                    /\ reply' = [ok |-> TRUE, users |-> list]
                    /\ call' = [op |-> "add", ok |-> TRUE, user |-> user_name[1]]
                    /\ removed' = IF clean THEN removed \ {user_name[1]} ELSE {}
            /\ UNCHANGED DEFAULT_USERS
            /\ UNCHANGED <<usePostgres, client, now, conversations, messages, raw>>
            /\ UNCHANGED <<rewriterVars, classifierVars>>

(* DELETE /api/gpt/users/<user_id>, lines 590-604.  `ok` of the call says  *)
(* that delete_gpt_user returned True and that no database call of the     *)
(* request raised.                                                         *)
ApiGptDeleteUser ==
    \E user_id \in Names, selects \in BOOLEAN, seeds \in BOOLEAN, deletes \in BOOLEAN,
       reselects \in BOOLEAN, reseeds \in BOOLEAN :
        LET loaded == load_gpt_users(users, DEFAULT_USERS, selects, seeds)
            clean == selects /\ seeds /\ deletes /\ reselects /\ reseeds
        IN
        /\ IF user_id \notin Range(loaded.list)
           THEN /\ reply' = [ok |-> FALSE, error |-> "not found"]
                /\ call' = [op |-> "delete", ok |-> FALSE]
                /\ users' = loaded.table
                /\ removed' = IF clean THEN removed ELSE {}
                /\ UNCHANGED <<conversations, messages>>
           ELSE LET left == delete_gpt_user([conversations |-> conversations,
                                             messages |-> messages,
                                             users |-> loaded.table], user_id, deletes)
                    again_loaded == load_gpt_users(left.users, DEFAULT_USERS, reselects, reseeds)
                IN  /\ users' = again_loaded.table
                    /\ conversations' = left.conversations
                    /\ messages' = left.messages
                    /\ reply' = [ok |-> TRUE, users |-> again_loaded.list]
                    /\ call' = [op |-> "delete", ok |-> clean, user |-> user_id]
                    /\ removed' = IF clean THEN removed \cup {user_id} ELSE {}
        /\ UNCHANGED DEFAULT_USERS
        /\ UNCHANGED <<usePostgres, client, now, raw>>
        /\ UNCHANGED <<rewriterVars, classifierVars>>

(* A call save_gpt_message(user, conv, role, content, model, has_image). *)
SaveGptMessage ==
    \E user \in Names, conv \in ConversationIds, role \in {"user"}, works \in BOOLEAN :
        LET db == [conversations |-> conversations, messages |-> messages]
            saved == save_gpt_message(db, usePostgres, now, user, conv, role, <<"a">>,
                                      IF role = "user" THEN NoModel ELSE Light, FALSE, works)
        IN  /\ Len(messages) < MaxSaved
            /\ conversations' = saved.conversations
            /\ messages' = saved.messages
            /\ call' = [op |-> "save", ok |-> works]
            /\ UNCHANGED <<users, DEFAULT_USERS, removed>>
            /\ UNCHANGED <<usePostgres, client, now, raw, reply>>
            /\ UNCHANGED <<rewriterVars, classifierVars>>

(* ---------------- the state machines ---------------------------------- *)

RewriterIdle ==
    /\ text = None /\ stages = <<>> /\ result = None /\ again = None /\ pc = "start"

ClassifierIdle == question = <<>> /\ flag = FALSE /\ tier = NoTier

ChatIdle ==
    /\ usePostgres = FALSE /\ client = TRUE /\ now = 0
    /\ conversations = {} /\ messages = <<>> /\ raw = None /\ reply = NoReply

UsersIdle ==
    /\ users = <<>> /\ DEFAULT_USERS = <<>> /\ call = NoCall /\ removed = {}

(* The rewriter: a call on an input, then a call on its output. *)
Init ==
    /\ text \in Inputs
    /\ stages = <<>>
    /\ result = None
    /\ again = None
    /\ pc = "start"
    /\ ClassifierIdle
    /\ ChatIdle
    /\ UsersIdle

(* One call process_math_response(text). *)
Rewrite ==
    /\ pc = "start"
    /\ stages' = Locals(text)
    /\ result' = process_math_response(text)
    /\ pc' = "done"
    /\ UNCHANGED <<text, again, classifierVars, chatVars, userVars>>

(* A second call, on the output of the first. *)
RewriteAgain ==
    /\ pc = "done"
    /\ again' = process_math_response(result)
    /\ pc' = "twice"
    /\ UNCHANGED <<text, stages, result, classifierVars, chatVars, userVars>>

Next == Rewrite \/ RewriteAgain

Spec == Init /\ [][Next]_vars

(* The classifier: one call on a question and an image flag. *)
InitClassify ==
    /\ question \in Questions
    /\ flag \in BOOLEAN
    /\ tier = NoTier
    /\ RewriterIdle
    /\ ChatIdle
    /\ UsersIdle

Classify ==
    /\ tier = NoTier
    /\ tier' = analyze_question_complexity(question, flag)
    /\ UNCHANGED <<question, flag, rewriterVars, chatVars, userVars>>

NextClassify == Classify

SpecClassify == InitClassify /\ [][NextClassify]_vars

(* The chat handler: requests, one after the other, against one database. *)
InitChat ==
    /\ usePostgres \in BOOLEAN
    /\ client \in BOOLEAN
    /\ now = 0
    /\ conversations = {}
    /\ messages = <<>>
    /\ raw = None
    /\ reply = NoReply
    /\ RewriterIdle
    /\ ClassifierIdle
    /\ UsersIdle

NextChat == ApiGptChat \/ Tick

SpecChat == InitChat /\ [][NextChat]_vars

(* The database helpers and the user requests, against one database that   *)
(* init_db has just created.                                               *)
InitDb ==
    /\ usePostgres \in BOOLEAN
    /\ client = TRUE
    /\ now = 0
    /\ conversations = {}
    /\ messages = <<>>
    /\ raw = None
    /\ reply = NoReply
    /\ users = <<>>
    /\ DEFAULT_USERS \in DefaultLists
    /\ call = NoCall
    /\ removed = {}
    /\ RewriterIdle
    /\ ClassifierIdle

NextDb == SaveGptMessage \/ Tick \/ ApiGptGetUsers \/ ApiGptAddUser \/ ApiGptDeleteUser

SpecDb == InitDb /\ [][NextDb]_vars

(* ======================= properties ================================== *)

(* The text the fraction pattern is applied to (the local `result` when    *)
(* the delimiter loop is over). *)
Unwrapped == stages[Len(stages)]

(* a occurs in s as a run of consecutive lexemes. *)
IsInfix(a, s) == \E i \in 1..(Len(s) - Len(a) + 1) : LitAt(s, i, a)

(* s holds none of the delimiter lexemes. *)
DelimiterLexemes == {"\\[", "\\]", "\\(", "\\)", DOLLAR}
NoDelimiters(s) == \A i \in 1..Len(s) : s[i] \notin DelimiterLexemes

(* s without its leading and trailing whitespace, stated by positions. *)
Trimmed(s) ==
    LET solid == {i \in 1..Len(s) : s[i] \notin Whitespace} IN
    IF solid = {} THEN <<>>
    ELSE SubSeq(s, CHOOSE a \in solid : \A b \in solid : a <= b,
                   CHOOSE a \in solid : \A b \in solid : a >= b)

(* The occurrences of \frac{N}{D} in s, N and D being non-empty runs       *)
(* without "}": <<i, n, d>> where the occurrence starts at i, N is         *)
(* s[i+2..n-1] and D is s[n+2..d-1].                                       *)
Least(S) == CHOOSE a \in S : \A b \in S : a <= b
Braces(s, k) == {j \in k..Len(s) : s[j] = RBRACE}
IsOccurrence(s, i) ==
    /\ LitAt(s, i, <<FRAC, LBRACE>>)
    /\ Braces(s, i + 2) # {}
    /\ LET n == Least(Braces(s, i + 2)) IN
       /\ n > i + 2
       /\ LitAt(s, n, <<RBRACE, LBRACE>>)
       /\ Braces(s, n + 2) # {}
       /\ Least(Braces(s, n + 2)) > n + 2

Occurrences(s) ==
    { LET n == Least(Braces(s, i + 2)) IN <<i, n, Least(Braces(s, n + 2))>> :
        i \in {j \in 1..Len(s) : IsOccurrence(s, j)} }

(* What the claim puts in place of the occurrence o of s. *)
Expected(s, o) ==
    Trimmed(Cut(s, o[2] + 2, o[3] - 1)) \o <<BUNUI, SPACE>> \o Trimmed(Cut(s, o[1] + 2, o[2] - 1))

(* An occurrence that starts earlier reaches into o. *)
Overlapped(s, o) == \E q \in Occurrences(s) : q[1] < o[1] /\ q[3] >= o[1]

(* C1 as claimed: every occurrence of \frac{N}{D} in the input is replaced  *)
(* by trim(D) bunui trim(N), so that string stands in the output.          *)
C1_EveryOccurrenceReplaced ==
    pc = "done" /\ ~text.isNone =>
        \A o \in Occurrences(text.chars) : IsInfix(Expected(text.chars, o), result.chars)

(* C1: every occurrence of \frac{N}{D} in the text left by the delimiter    *)
(* loop that no earlier occurrence overlaps is replaced by                 *)
(* trim(D) bunui trim(N); what stands before it and what stands after it   *)
(* are substituted on their own, and the pieces keep their order.          *)
C1_FractionsReplacedInOrder ==
    pc = "done" /\ stages # <<>> =>
        LET u == Unwrapped IN
        \A o \in Occurrences(u) :
            ~Overlapped(u, o) =>
                result.chars = FracSub(Cut(u, 1, o[1] - 1)) \o Expected(u, o)
                                   \o FracSub(Cut(u, o[3] + 1, Len(u)))

(* C1 witness: two fractions with text between them, both replaced. *)
C1_Witness ==
    /\ pc = "done" /\ stages # <<>>
    /\ \E o \in Occurrences(Unwrapped) : \E q \in Occurrences(Unwrapped) :
          /\ o[3] + 1 < q[1]
          /\ ~Overlapped(Unwrapped, o) /\ ~Overlapped(Unwrapped, q)
          /\ Trimmed(Cut(Unwrapped, o[1] + 2, o[2] - 1)) # Cut(Unwrapped, o[1] + 2, o[2] - 1)
    /\ ~Contains(result.chars, FRAC)

(* The spans pattern p matches in s from position i on, as sub finds them: *)
(* <<first, last, open, close>> with open and close the lengths of the    *)
(* delimiters.                                                             *)
RECURSIVE SpansFrom(_, _, _)
SpansFrom(p, s, i) ==
    IF i > Len(s) THEN {}
    ELSE LET k == DelimMatch(p, s, i) IN
         IF k = 0 THEN SpansFrom(p, s, i + 1)
         ELSE {<<i, k + Len(p.close) - 1, Len(p.open), Len(p.close)>>}
                  \cup SpansFrom(p, s, k + Len(p.close))

Spans(p, s) == SpansFrom(p, s, 1)
Content(s, m) == Cut(s, m[1] + m[3], m[2] - m[4])

(* C2 as claimed: for each of the four kinds, a text that holds one         *)
(* delimited span around a fraction marker, and no other delimiter, comes  *)
(* out with the two delimiters removed and nothing else changed before the *)
(* fractions are substituted.                                              *)
C2_SpanReplacedByContent ==
    pc = "done" /\ ~text.isNone =>
        LET s == text.chars IN
        \A n \in 1..Len(_DELIMITERS) : \A i \in 1..Len(s) : \A k \in 1..Len(s) :
            LET p == _DELIMITERS[n]
                pre == Cut(s, 1, i - 1)
                inner == Cut(s, i + Len(p.open), k - 1)
                post == Cut(s, k + Len(p.close), Len(s))
            IN  ( /\ LitAt(s, i, p.open) /\ LitAt(s, k, p.close)
                  /\ k > i + Len(p.open)
                  /\ Contains(inner, FRAC)
                  /\ NoDelimiters(pre) /\ NoDelimiters(inner) /\ NoDelimiters(post) )
                => result.chars = FracSub(pre \o inner \o post)

AllWellFormed(s) ==
    LET occ == Occurrences(s) IN
    \A i \in 1..Len(s) : s[i] = FRAC =>
        /\ \E o \in occ : o[1] = i
        /\ ~\E q \in occ : q[1] < i /\ q[3] >= i

C5_NoMarkerUnchanged ==
    pc = "done" /\ ~text.isNone /\ ~Contains(text.chars, FRAC) => result = text

(* C5 witness: a text with a delimited span and no marker went through. *)
C5_Witness ==
    /\ pc = "done" /\ ~text.isNone /\ ~Contains(text.chars, FRAC)
    /\ \E n \in 1..Len(_DELIMITERS) : Spans(_DELIMITERS[n], text.chars) # {}

(* C6: None and the empty string give the empty string. *)
C6_NoneOrEmptyGivesEmpty ==
    pc = "done" /\ (text.isNone \/ text.chars = <<>>) => result = Str(<<>>)

(* C6 witness: the call was made with None. *)
C6_Witness == pc = "done" /\ text.isNone

(* The markers of s at which no \frac{N}{D} begins. *)
Malformed(s) == {i \in 1..Len(s) : s[i] = FRAC /\ ~IsOccurrence(s, i)}
Count(s, tok) == Cardinality({i \in 1..Len(s) : s[i] = tok})

(* C7 as claimed: every malformed marker of the input is still in the       *)
(* output.                                                                 *)
C7_MalformedKept ==
    pc = "done" /\ ~text.isNone =>
        Count(result.chars, FRAC) >= Cardinality(Malformed(text.chars))

(* C7: the call returns a string; a marker of the text left by the          *)
(* delimiter loop at which no \frac{N}{D} begins, and which is not inside  *)
(* an occurrence that starts before it, stays where it is; and when that   *)
(* text holds no \frac{N}{D} at all, it is returned as it is.              *)
C7_MalformedLeftVerbatim ==
    pc = "done" =>
        /\ ~result.isNone
        /\ stages # <<>> =>
              LET u == Unwrapped
                  occ == Occurrences(u)
              IN  /\ \A i \in Malformed(u) :
                         (~\E q \in occ : q[1] < i /\ q[3] >= i) =>
                             result.chars = FracSub(Cut(u, 1, i - 1)) \o <<FRAC>>
                                                \o FracSub(Cut(u, i + 1, Len(u)))
                  /\ occ = {} => result.chars = u

(* C7 witness: a fraction with an empty numerator came out as it went in. *)
C7_Witness ==
    /\ pc = "done" /\ stages # <<>>
    /\ IsInfix(<<FRAC, LBRACE, RBRACE, LBRACE>>, text.chars)
    /\ Occurrences(Unwrapped) = {}
    /\ result = text

(* What process_math_response makes of a model response. *)
Rewritten == {process_math_response(Str(r)).chars : r \in ModelResponses}

(* C8 as claimed: the text in a reply, and the text of every assistant      *)
(* record, is a model response that went through process_math_response.    *)
C8_ResponseRewritten ==
    /\ reply.ok => reply.response = process_math_response(raw).chars
    /\ \A i \in 1..Len(messages) :
           messages[i].role = "assistant" => messages[i].content \in Rewritten

(* C9: with the image flag set the tier is Heavy, whatever the text. *)
C9_ImageAlwaysHeavy == tier # NoTier /\ flag => tier = Heavy

(* C9 witness: a short greeting, classified with the image flag set. *)
C9_Witness ==
    /\ tier = Heavy /\ flag
    /\ ContainsAny(question, LightKeywords)
    /\ ~ContainsAny(question, HeavyKeywords \cup StandardKeywords)
    /\ Len(question) <= ShortLimit

HasKeyword(q, keywords) == \E i \in 1..Len(q) : \E k \in keywords : q[i] = k

(* C10: without an image, a Heavy keyword gives Heavy; failing that, a      *)
(* Standard keyword gives Standard; failing that, a Light keyword gives    *)
(* Light; whatever the length and the other keywords.                      *)
C10_KeywordTiersInOrder ==
    tier # NoTier /\ ~flag =>
        /\ HasKeyword(question, HeavyKeywords) => tier = Heavy
        /\ ~HasKeyword(question, HeavyKeywords) /\ HasKeyword(question, StandardKeywords)
              => tier = Standard
        /\ ( /\ ~HasKeyword(question, HeavyKeywords)
             /\ ~HasKeyword(question, StandardKeywords)
             /\ HasKeyword(question, LightKeywords) ) => tier = Light

(* C10 witness: keywords of all three tiers in one question. *)
C10_Witness ==
    /\ tier = Heavy /\ ~flag
    /\ HasKeyword(question, HeavyKeywords)
    /\ HasKeyword(question, StandardKeywords)
    /\ HasKeyword(question, LightKeywords)

(* No keyword of any tier is in q. *)
NoKeyword(q) ==
    ~HasKeyword(q, HeavyKeywords \cup StandardKeywords \cup LightKeywords)

(* C11: without an image and without a keyword of any tier, the length of   *)
(* the text as given decides: more than 200 gives Heavy, more than 50      *)
(* gives Standard, otherwise Light, so the empty text gives Light; and a   *)
(* text of more than 200 whose only keywords are Light ones gives Light.   *)
C11_LengthDecidesWithoutKeyword ==
    tier # NoTier /\ ~flag =>
        /\ NoKeyword(question) =>
              tier = IF Len(question) > 200 THEN Heavy
                     ELSE IF Len(question) > 50 THEN Standard
                     ELSE Light
        /\ question = <<>> => tier = Light
        /\ ( /\ Len(question) > 200
             /\ HasKeyword(question, LightKeywords)
             /\ ~HasKeyword(question, HeavyKeywords \cup StandardKeywords) )
              => tier = Light

(* C11 witness: a text of exactly 200 characters, one of them a capital,   *)
(* without a keyword, classified Standard.                                 *)
C11_Witness ==
    /\ tier = Standard /\ ~flag
    /\ NoKeyword(question)
    /\ Len(question) = 200
    /\ \E i \in 1..Len(question) : question[i] = "A"

(* C12 as claimed: a text that is one delimited span around one fraction,   *)
(* with or without spaces between the delimiters and the fraction (and no  *)
(* newline), gives the bare trim(D) bunui trim(N), nothing before it and   *)
(* nothing after.                                                          *)
C12_DelimitedFractionBare ==
    pc = "done" /\ ~text.isNone =>
        LET s == text.chars IN
        \A n \in 1..Len(_DELIMITERS) :
            LET p == _DELIMITERS[n]
                inner == Strip(Cut(s, 1 + Len(p.open), Len(s) - Len(p.close)))
            IN  ( /\ Len(s) > Len(p.open) + Len(p.close)
                  /\ ~Contains(s, NEWLINE)
                  /\ LitAt(s, 1, p.open)
                  /\ LitAt(s, Len(s) - Len(p.close) + 1, p.close) )
                => \A o \in Occurrences(inner) :
                       o[1] = 1 /\ o[3] = Len(inner) => result.chars = Expected(inner, o)

(* C13 as claimed: for each of the four patterns, a span around a fraction  *)
(* marker whose content holds a newline is unwrapped: in a text with that  *)
(* one span and no other delimiter, the delimiter loop leaves the text     *)
(* without the two delimiters.                                             *)
C13_NewlineSpanUnwrapped ==
    pc = "done" /\ stages # <<>> =>
        LET s == text.chars IN
        \A n \in 1..Len(_DELIMITERS) : \A i \in 1..Len(s) : \A k \in 1..Len(s) :
            LET p == _DELIMITERS[n]
                pre == Cut(s, 1, i - 1)
                inner == Cut(s, i + Len(p.open), k - 1)
                post == Cut(s, k + Len(p.close), Len(s))
            IN  ( /\ LitAt(s, i, p.open) /\ LitAt(s, k, p.close)
                  /\ k > i + Len(p.open)
                  /\ Contains(inner, FRAC) /\ Contains(inner, NEWLINE)
                  /\ NoDelimiters(pre) /\ NoDelimiters(inner) /\ NoDelimiters(post) )
                => Unwrapped = pre \o inner \o post

(* C14 as claimed, for requests during which no database call raises: a    *)
(* user id deleted by a delete_gpt_user that went through is not in the    *)
(* list the delete request returns, and is not in gpt_users as long as no  *)
(* add request names it.                                                   *)
C14_DeletedUserStaysAbsent ==
    /\ \A u \in removed : u \notin Range(users)
    /\ call.op = "delete" /\ call.ok => call.user \notin Range(reply.users)

(* C15 as claimed: a save_gpt_message that goes through on a conversation   *)
(* that exists appends one message row and changes nothing of the          *)
(* conversations but the updated_at of that one row: its created_at is     *)
(* kept, with PostgreSQL and with SQLite alike.                            *)
C15_SaveKeepsCreatedAt ==
    [][ Len(messages') = Len(messages) + 1 =>
            LET m == messages'[Len(messages')] IN
            /\ messages' = Append(messages, m)
            /\ \A c \in ConversationRows(conversations, m.user_id, m.conversation_id) :
                   conversations' = (conversations \ {c})
                                        \cup {[c EXCEPT !.updated_at = now]} ]_vars

(* C16: a request that is answered with an error (no message and no image, *)
(* no API client, the model call raising) leaves gpt_messages and          *)
(* gpt_conversations as they were; every assistant record a request adds   *)
(* holds the response the model call of that request returned; and among   *)
(* the records a request adds, the user record comes before the assistant  *)
(* record.                                                                 *)
C16_SavedOnlyAfterResponse ==
    [][ LET added == (Len(messages) + 1)..Len(messages') IN
        /\ ~reply'.ok => messages' = messages /\ conversations' = conversations
        /\ \A i \in added :
               /\ SubSeq(messages', 1, Len(messages)) = messages
               /\ messages'[i].role = "assistant" =>
                      ~raw'.isNone /\ messages'[i].content = raw'.chars
        /\ \A i \in added : \A j \in added :
               messages'[i].role = "user" /\ messages'[j].role = "assistant" => i < j ]_vars

(* C16 witness: a request was answered and left its two records, the user  *)
(* record first.                                                           *)
C16_Witness ==
    /\ reply.ok
    /\ Len(messages) = 2
    /\ messages[1].role = "user" /\ messages[2].role = "assistant"
    /\ messages[2].content = raw.chars

====
